---------------------------- MODULE Spec2Model ----------------------------
(* Receive path of the DW3000 driver (src/hl/receiving.rs) and the SPI     *)
(* header decoder of the tracing example (examples/init_tracing.rs).       *)
(*                                                                         *)
(* One driver handle `dw` talks to one chip over a bus.  Every driver call *)
(* is one action; the bus transactions it issued are recorded in `log`,    *)
(* its outcome in `res`.  A bus failure is an input of the call: `fail`    *)
(* is the index of the transaction of that call that fails (0 = none).     *)
EXTENDS Integers, Sequences, FiniteSets, TLC

VARIABLES
    dw,          \* the handle: [ll, seq, tag, finished]
    sys_status,  \* chip SYS_STATUS: the set of flags that are 1
    sys_cfg,     \* chip SYS_CFG.ffen
    ff_cfg,      \* chip FF_CFG: the set of frame-type bits that are 1
    dx_time,     \* chip DX_TIME.value (32 bits)
    rx_time,     \* chip RX_TIME.rx_stamp (40 bits)
    rx_finfo,    \* chip RX_FINFO.rxflen
    rx_buffer,   \* chip RX_BUFFER_0.data
    mode,        \* chip hardware mode: "idle" or "rx" (receiver running)
    buffer,      \* the caller's buffer
    op,          \* the last driver call: its name and its inputs
    res,         \* its outcome
    log,         \* the bus transactions it issued, in order
    events,      \* chip events so far
    hdr          \* header codec: the tuple, its two bytes, the decoded tuple

vars == <<dw, sys_status, sys_cfg, ff_cfg, dx_time, rx_time, rx_finfo,
          rx_buffer, mode, buffer, op, res, log, events, hdr>>

chip == <<sys_status, sys_cfg, ff_cfg, dx_time, rx_time, rx_finfo, rx_buffer, mode>>

-----------------------------------------------------------------------------
(* Bounds *)

MaxLen == 3
MaxEvents == 2
MaxSeq == 1
MaxId == 63
MaxSubId == 127

RxBufLen == MaxLen + 1

-----------------------------------------------------------------------------
(* SYS_STATUS flags *)

ErrorFlags == {"rxfce", "rxphe", "rxfsl", "rxsto", "arfe", "rxfto", "rxovrr", "rxpto"}
SpuriousFlags == {"ciaerr", "rxprej"}
DecoderFlags == {"rxfcg"} \cup ErrorFlags \cup SpuriousFlags

\* the bits r_wait writes back as 1 (write-1-to-clear)
StatusResetBits ==
    {"rxprd", "rxsfdd", "ciadone", "rxphd", "rxphe", "rxfr", "rxfcg", "rxfce",
     "rxfsl", "rxfto", "ciaerr", "rxovrr", "rxpto", "rxsto", "rxprej"}

\* the frame types start_receiving allows when frame filtering is on
FrameTypeBits == {"ffab", "ffad", "ffaa", "ffam"}

-----------------------------------------------------------------------------
(* Outcomes *)

Result(kind, required_len, len, time, frame) ==
    [kind |-> kind, required_len |-> required_len, len |-> len,
     rx_time |-> time, frame |-> frame]

\* A 40-bit or 32-bit register value is the pair <<hi, lo>> of its bits above
\* bit 15 and its low 16 bits: value = hi * 2^16 + lo.
Zero == <<0, 0>>

Plain(kind) == Result(kind, 0, 0, Zero, <<>>)

\* variant: the error reports one byte less than the frame needs
BufferTooSmall_short(len) == Result("BufferTooSmall", len - 1, 0, Zero, <<>>)

\* Error::BufferTooSmall { required_len: len }
BufferTooSmall(len) == Result("BufferTooSmall", len, 0, Zero, <<>>)

StatusErrorKinds ==
    {"Fcs", "Phy", "ReedSolomon", "SfdTimeout", "FrameFilteringRejection",
     "FrameWaitTimeout", "Overrun", "PreambleDetectionTimeout"}

\* the first `fail` transactions of `plan` are issued when the fail-th fails
Issued(plan, fail) == IF fail \in 1..Len(plan) THEN SubSeq(plan, 1, fail) ELSE plan
Fails(plan, fail) == fail \in 1..Len(plan)
\* transaction k of a call was issued and succeeded
Done(k, fail) == fail = 0 \/ k < fail


-----------------------------------------------------------------------------
(* Bus transactions *)

RdSysStatus == <<"read", "sys_status">>
RdRxTime == <<"read", "rx_time">>
WrSysStatus == <<"write", "sys_status">>
RdRxFinfo == <<"read", "rx_finfo">>
RdRxBuffer == <<"read", "rx_buffer_0">>
MdSysCfg == <<"modify", "sys_cfg">>
MdFfCfg == <<"modify", "ff_cfg">>
MdDxTime == <<"modify", "dx_time">>
CmdRx == <<"cmd", "CMD_RX">>
CmdDrx == <<"cmd", "CMD_DRX">>
CmdTxRxOff == <<"cmd", "CMD_TXRXOFF">>

IsFastCmd(t) == t[1] = "cmd"

\* the chip mode after a call that issued the transactions l, the last of
\* which failed when `failed`: a receive-start command that went through turns
\* the receiver on, a force-idle command that went through turns it off
mode_after(m, l, failed) ==
    LET ok == IF failed THEN SubSeq(l, 1, Len(l) - 1) ELSE l
    IN  IF \E i \in 1..Len(ok) : ok[i] \in {CmdRx, CmdDrx} THEN "rx"
        ELSE IF \E i \in 1..Len(ok) : ok[i] = CmdTxRxOff THEN "idle"
        ELSE m

-----------------------------------------------------------------------------
(* Handle states *)

Ready == [tag |-> "Ready"]
Receiving(fin) == [tag |-> "Receiving", finished |-> fin]
\* the thread holding the handle has panicked
Panicked == [tag |-> "Panicked"]
\* the handle was consumed by a call that returned only an error
Dropped == [tag |-> "Dropped"]

is_finished(state) == state.finished
mark_finished(state) == [state EXCEPT !.finished = TRUE]

-----------------------------------------------------------------------------
(* External codecs used by the receive path *)

\* Instant::new: Some for a value that fits 40 bits
InstantNew(v) == v[1] < 2^24 /\ v[2] < 2^16

\* Ieee802154Frame::new_checked: the frame holds at least the frame control
\* field and sequence number, and neither addressing mode is the reserved one.
\* Bits 2-3 and 6-7 of the second byte are the destination and source modes.
new_checked(frame) ==
    /\ Len(frame) >= 3
    /\ (frame[2] \div 4) % 4 # 1
    /\ (frame[2] \div 64) % 4 # 1

-----------------------------------------------------------------------------
(* r_wait *)

\* variant: the SFD timeout is checked before the FCS error
r_wait_status_sfd_first(s) ==
    IF "rxsto" \in s THEN "SfdTimeout"
    ELSE IF "rxfce" \in s THEN "Fcs"
    ELSE IF "rxphe" \in s THEN "Phy"
    ELSE IF "rxfsl" \in s THEN "ReedSolomon"
    ELSE IF "arfe" \in s THEN "FrameFilteringRejection"
    ELSE IF "rxfto" \in s THEN "FrameWaitTimeout"
    ELSE IF "rxovrr" \in s THEN "Overrun"
    ELSE IF "rxpto" \in s THEN "PreambleDetectionTimeout"
    ELSE "WouldBlock"

\* lines 133-168 of r_wait: the error checks made when rxfcg is 0
r_wait_status(s) ==
    IF "rxfce" \in s THEN "Fcs"
    ELSE IF "rxphe" \in s THEN "Phy"
    ELSE IF "rxfsl" \in s THEN "ReedSolomon"
    ELSE IF "rxsto" \in s THEN "SfdTimeout"
    ELSE IF "arfe" \in s THEN "FrameFilteringRejection"
    ELSE IF "rxfto" \in s THEN "FrameWaitTimeout"
    ELSE IF "rxovrr" \in s THEN "Overrun"
    ELSE IF "rxpto" \in s THEN "PreambleDetectionTimeout"
    ELSE "WouldBlock"

\* variant: a frame is ready only when no error bit is set
r_wait_frame_ready_no_error(s) == "rxfcg" \in s /\ s \cap ErrorFlags = {}

\* is a frame ready? (line 133)
r_wait_frame_ready(s) == "rxfcg" \in s

\* the buffer check of line 223
r_wait_too_small(buf, len) == Len(buf) < len

\* buffer[..len].copy_from_slice(&rx_buffer.data()[..len])
r_wait_copy(buf, data, len) ==
    [i \in 1..Len(buf) |-> IF i <= len THEN data[i] ELSE buf[i]]

\* variant: the error of the status write-back is ignored
spi_error_write_ignored(fail, k) == fail = k /\ k # 3

\* `?` on the k-th transaction of a call: its bus error ends the call
spi_error(fail, k) == fail = k

Outcome(r, l, s, b, st) == [res |-> r, log |-> l, status |-> s, buffer |-> b, state |-> st]

\* variant: a session that has finished is not decoded again
r_wait_run_finished_blocks(s, stamp, len, data, buf, st, fail) ==
    LET plan == <<RdSysStatus, RdRxTime, WrSysStatus, RdRxFinfo, RdRxBuffer>>
        cleared == s \ StatusResetBits
    IN  IF spi_error(fail, 1) THEN Outcome(Plain("Spi"), Issued(plan, 1), s, buf, st)
        ELSE IF ~r_wait_frame_ready(s)
            THEN Outcome(Plain(IF st.finished THEN "WouldBlock" ELSE r_wait_status(s)),
                         <<RdSysStatus>>, s, buf, st)
        ELSE IF spi_error(fail, 2) THEN Outcome(Plain("Spi"), Issued(plan, 2), s, buf, st)
        ELSE IF ~InstantNew(stamp)
            THEN Outcome(Plain("Panic"), Issued(plan, 2), s, buf, Panicked)
        ELSE IF spi_error(fail, 3) THEN Outcome(Plain("Spi"), Issued(plan, 3), s, buf, st)
        ELSE IF spi_error(fail, 4) THEN Outcome(Plain("Spi"), Issued(plan, 4), cleared, buf, st)
        ELSE IF spi_error(fail, 5) THEN Outcome(Plain("Spi"), Issued(plan, 5), cleared, buf, st)
        ELSE IF r_wait_too_small(buf, len)
            THEN Outcome(BufferTooSmall(len), plan, cleared, buf, st)
        ELSE LET copied == r_wait_copy(buf, data, len)
                 frame == SubSeq(copied, 1, len)
             IN  IF new_checked(frame)
                 THEN Outcome(Result("Ok", 0, len, stamp, frame), plan, cleared,
                              copied, mark_finished(st))
                 ELSE Outcome(Plain("Panic"), plan, cleared, copied, Panicked)

\* the whole call, for status word s, timestamp register stamp, frame length
\* len, receive buffer data, caller buffer buf, session state st
r_wait_run(s, stamp, len, data, buf, st, fail) ==
    LET plan == <<RdSysStatus, RdRxTime, WrSysStatus, RdRxFinfo, RdRxBuffer>>
        cleared == s \ StatusResetBits
    IN  IF spi_error(fail, 1) THEN Outcome(Plain("Spi"), Issued(plan, 1), s, buf, st)
        ELSE IF ~r_wait_frame_ready(s)
            THEN Outcome(Plain(r_wait_status(s)), <<RdSysStatus>>, s, buf, st)
        ELSE IF spi_error(fail, 2) THEN Outcome(Plain("Spi"), Issued(plan, 2), s, buf, st)
        ELSE IF ~InstantNew(stamp)
            THEN Outcome(Plain("Panic"), Issued(plan, 2), s, buf, Panicked)
        ELSE IF spi_error(fail, 3) THEN Outcome(Plain("Spi"), Issued(plan, 3), s, buf, st)
        ELSE IF spi_error(fail, 4) THEN Outcome(Plain("Spi"), Issued(plan, 4), cleared, buf, st)
        ELSE IF spi_error(fail, 5) THEN Outcome(Plain("Spi"), Issued(plan, 5), cleared, buf, st)
        ELSE IF r_wait_too_small(buf, len)
            THEN Outcome(BufferTooSmall(len), plan, cleared, buf, st)
        ELSE LET copied == r_wait_copy(buf, data, len)
                 frame == SubSeq(copied, 1, len)
             IN  IF new_checked(frame)
                 THEN Outcome(Result("Ok", 0, len, stamp, frame), plan, cleared,
                              copied, mark_finished(st))
                 ELSE Outcome(Plain("Panic"), plan, cleared, copied, Panicked)

r_wait(fail) ==
    /\ dw.state.tag = "Receiving"
    /\ LET o == r_wait_run(sys_status, rx_time, rx_finfo, rx_buffer, buffer, dw.state, fail)
       IN  /\ res' = o.res
           /\ log' = o.log
           /\ sys_status' = o.status
           /\ buffer' = o.buffer
           /\ dw' = [dw EXCEPT !.state = o.state]
    /\ op' = [name |-> "r_wait", fail |-> fail]
    /\ UNCHANGED <<sys_cfg, ff_cfg, dx_time, rx_time, rx_finfo, rx_buffer, mode, events, hdr>>

-----------------------------------------------------------------------------
(* r_wait_buf *)

\* lines 263-298 of r_wait_buf
r_wait_buf_status(s) ==
    IF "rxfce" \in s THEN "Fcs"
    ELSE IF "rxphe" \in s THEN "Phy"
    ELSE IF "rxfsl" \in s THEN "ReedSolomon"
    ELSE IF "rxsto" \in s THEN "SfdTimeout"
    ELSE IF "arfe" \in s THEN "FrameFilteringRejection"
    ELSE IF "rxfto" \in s THEN "FrameWaitTimeout"
    ELSE IF "rxovrr" \in s THEN "Overrun"
    ELSE IF "rxpto" \in s THEN "PreambleDetectionTimeout"
    ELSE "WouldBlock"

r_wait_buf_frame_ready(s) == "rxfcg" \in s

r_wait_buf_too_small(buf, len) == Len(buf) < len

\* variant: the whole buffer is filled from the receive buffer
r_wait_buf_copy_all(buf, data, len) == [i \in 1..Len(buf) |-> data[i]]

\* buffer[..len].copy_from_slice(&rx_buffer.data()[..len])
r_wait_buf_copy(buf, data, len) ==
    [i \in 1..Len(buf) |-> IF i <= len THEN data[i] ELSE buf[i]]

\* variant: a status error is cleared by the wait that reports it
r_wait_buf_run_clears_error(s, stamp, len, data, buf, st, fail) ==
    LET plan == <<RdSysStatus, RdRxTime, WrSysStatus, RdRxFinfo, RdRxBuffer>>
        cleared == s \ StatusResetBits
    IN  IF spi_error(fail, 1) THEN Outcome(Plain("Spi"), Issued(plan, 1), s, buf, st)
        ELSE IF ~r_wait_buf_frame_ready(s)
            THEN Outcome(Plain(r_wait_buf_status(s)), <<RdSysStatus, WrSysStatus>>,
                         s \ StatusResetBits, buf, st)
        ELSE IF spi_error(fail, 2) THEN Outcome(Plain("Spi"), Issued(plan, 2), s, buf, st)
        ELSE IF ~InstantNew(stamp)
            THEN Outcome(Plain("Panic"), Issued(plan, 2), s, buf, Panicked)
        ELSE IF spi_error(fail, 3) THEN Outcome(Plain("Spi"), Issued(plan, 3), s, buf, st)
        ELSE IF spi_error(fail, 4) THEN Outcome(Plain("Spi"), Issued(plan, 4), cleared, buf, st)
        ELSE IF spi_error(fail, 5) THEN Outcome(Plain("Spi"), Issued(plan, 5), cleared, buf, st)
        ELSE IF r_wait_buf_too_small(buf, len)
            THEN Outcome(BufferTooSmall(len), plan, cleared, buf, st)
        ELSE LET copied == r_wait_buf_copy(buf, data, len)
             IN  Outcome(Result("Ok", 0, len, stamp, <<>>), plan, cleared,
                         copied, mark_finished(st))

r_wait_buf_run(s, stamp, len, data, buf, st, fail) ==
    LET plan == <<RdSysStatus, RdRxTime, WrSysStatus, RdRxFinfo, RdRxBuffer>>
        cleared == s \ StatusResetBits
    IN  IF spi_error(fail, 1) THEN Outcome(Plain("Spi"), Issued(plan, 1), s, buf, st)
        ELSE IF ~r_wait_buf_frame_ready(s)
            THEN Outcome(Plain(r_wait_buf_status(s)), <<RdSysStatus>>, s, buf, st)
        ELSE IF spi_error(fail, 2) THEN Outcome(Plain("Spi"), Issued(plan, 2), s, buf, st)
        ELSE IF ~InstantNew(stamp)
            THEN Outcome(Plain("Panic"), Issued(plan, 2), s, buf, Panicked)
        ELSE IF spi_error(fail, 3) THEN Outcome(Plain("Spi"), Issued(plan, 3), s, buf, st)
        ELSE IF spi_error(fail, 4) THEN Outcome(Plain("Spi"), Issued(plan, 4), cleared, buf, st)
        ELSE IF spi_error(fail, 5) THEN Outcome(Plain("Spi"), Issued(plan, 5), cleared, buf, st)
        ELSE IF r_wait_buf_too_small(buf, len)
            THEN Outcome(BufferTooSmall(len), plan, cleared, buf, st)
        ELSE LET copied == r_wait_buf_copy(buf, data, len)
             IN  Outcome(Result("Ok", 0, len, stamp, <<>>), plan, cleared,
                         copied, mark_finished(st))

r_wait_buf(fail) ==
    /\ dw.state.tag = "Receiving"
    /\ LET o == r_wait_buf_run(sys_status, rx_time, rx_finfo, rx_buffer, buffer, dw.state, fail)
       IN  /\ res' = o.res
           /\ log' = o.log
           /\ sys_status' = o.status
           /\ buffer' = o.buffer
           /\ dw' = [dw EXCEPT !.state = o.state]
    /\ op' = [name |-> "r_wait_buf", fail |-> fail]
    /\ UNCHANGED <<sys_cfg, ff_cfg, dx_time, rx_time, rx_finfo, rx_buffer, mode, events, hdr>>

-----------------------------------------------------------------------------
(* start_receiving *)

Now == [kind |-> "Now", value |-> Zero]
Delayed(v) == [kind |-> "Delayed", value |-> v]

\* the Instants a caller passes to a delayed receive
InstantValues ==
    {<<0, 2^9>>, <<0, 2^9 + 1>>, <<2^8 + 1, 2^10>>, <<2^23, 2^15 + 2^9>>,
     <<2^24 - 1, 2^16 - 2^9>>}
ReceiveTimes == {Now} \cup {Delayed(v) : v \in InstantValues}

\* variant: the alignment is not checked
time_rounded_unchecked(v) == v[2] >= 0

\* line 92: time.value() % (1 << 9) != 0 panics
time_rounded(v) == v[2] % (2^9) = 0

\* variant: the shifted value is narrowed to 24 bits
dx_time_value_u24(v) == <<(v[1] \div 2^8) % 2^8, (v[1] % 2^8) * 2^8 + (v[2] \div 2^8)>>

\* line 101: (time.value() >> 8) as u32
dx_time_value(v) == <<(v[1] \div 2^8) % 2^16, (v[1] % 2^8) * 2^8 + (v[2] \div 2^8)>>

\* the frame-filtering configuration of lines 70-84
filter_plan(frame_filtering) ==
    IF frame_filtering THEN <<MdSysCfg, MdFfCfg>> ELSE <<MdSysCfg>>

\* variant: the delayed receive is started before its time is written
start_plan_cmd_first(recv_time) ==
    IF recv_time.kind = "Delayed" THEN <<CmdDrx, MdDxTime>> ELSE <<CmdRx>>

\* the transactions of the match of lines 86-105
start_plan(recv_time) ==
    IF recv_time.kind = "Delayed" THEN <<MdDxTime, CmdDrx>> ELSE <<CmdRx>>

Started(r, l, c, f, d) == [res |-> r, log |-> l, sys_cfg |-> c, ff_cfg |-> f, dx_time |-> d]

\* the whole call, on chip registers c (SYS_CFG.ffen), f (FF_CFG), d (DX_TIME)
start_receiving(recv_time, frame_filtering, c, f, d, fail) ==
    LET cfg == filter_plan(frame_filtering)
        n == Len(cfg)
        plan == cfg \o start_plan(recv_time)
        c1 == IF Done(1, fail) THEN (IF frame_filtering THEN 1 ELSE 0) ELSE c
        f1 == IF frame_filtering /\ Done(2, fail) THEN f \cup FrameTypeBits ELSE f
    IN  IF Fails(cfg, fail) THEN Started(Plain("Spi"), Issued(cfg, fail), c1, f1, d)
        ELSE IF recv_time.kind = "Delayed" /\ ~time_rounded(recv_time.value)
            THEN Started(Plain("Panic"), cfg, c1, f1, d)
        ELSE Started(IF Fails(plan, fail) THEN Plain("Spi") ELSE Plain("Ok"),
                     Issued(plan, fail), c1, f1,
                     IF recv_time.kind = "Delayed" /\ Done(n + 1, fail)
                     THEN dx_time_value(recv_time.value) ELSE d)

\* receive: the Ready handle is consumed; a Receiving handle with an
\* unfinished session is returned when start_receiving succeeds, only the
\* error otherwise
receive_state(kind) ==
    IF kind = "Ok" THEN Receiving(FALSE)
    ELSE IF kind = "Panic" THEN Panicked
    ELSE Dropped

receive(recv_time, frame_filtering, fail) ==
    /\ dw.state.tag = "Ready"
    /\ LET o == start_receiving(recv_time, frame_filtering, sys_cfg, ff_cfg, dx_time, fail)
       IN  /\ res' = o.res
           /\ log' = o.log
           /\ sys_cfg' = o.sys_cfg
           /\ ff_cfg' = o.ff_cfg
           /\ dx_time' = o.dx_time
           /\ mode' = mode_after(mode, o.log, o.res.kind = "Spi")
           /\ dw' = [ll |-> dw.ll, seq |-> dw.seq, state |-> receive_state(o.res.kind)]
    /\ op' = [name |-> "receive", fail |-> fail, recv_time |-> recv_time,
               frame_filtering |-> frame_filtering]
    /\ UNCHANGED <<sys_status, rx_time, rx_finfo, rx_buffer, buffer, events, hdr>>

-----------------------------------------------------------------------------
(* finish_receiving *)

\* force_idle: one fast command
force_idle_plan == <<CmdTxRxOff>>

\* variant: the chip is forced idle whether or not the session is finished
finish_plan_always_idle(state) == force_idle_plan

\* variant: the chip is never forced idle
finish_plan_never_idle(state) == <<>>

\* line 375: the session is aborted unless it is finished
finish_plan(state) == IF ~is_finished(state) THEN force_idle_plan ELSE <<>>

\* variant: a Ready handle is built even when force_idle failed
finish_handle_always_ready(d, failed) == [ll |-> d.ll, seq |-> d.seq, state |-> Ready]

\* lines 376-386: the handle returned, for the handle d taken
finish_handle(d, failed) ==
    IF failed THEN d
    ELSE [ll |-> d.ll, seq |-> d.seq, state |-> Ready]

finish_receiving(fail) ==
    /\ dw.state.tag = "Receiving"
    /\ LET plan == finish_plan(dw.state)
       IN  /\ log' = Issued(plan, fail)
           /\ res' = IF Fails(plan, fail) THEN Plain("Spi") ELSE Plain("Ok")
           /\ mode' = mode_after(mode, Issued(plan, fail), Fails(plan, fail))
           /\ dw' = finish_handle(dw, Fails(plan, fail))
    /\ op' = [name |-> "finish_receiving", fail |-> fail]
    /\ UNCHANGED <<sys_status, sys_cfg, ff_cfg, dx_time, rx_time, rx_finfo,
                   rx_buffer, buffer, events, hdr>>

-----------------------------------------------------------------------------
(* The environment: the chip and the caller *)

ModeBytes == {0, 4}
Stamps == {Zero, <<2^24 - 1, 2^16 - 1>>}

\* the bytes of a received frame; the second one holds the addressing modes
RxData(m) == [i \in 1..RxBufLen |-> IF i = 2 THEN m ELSE 16 + i]

\* a fresh caller buffer of n bytes
FreshBuffer(n) == [i \in 1..n |-> 255]

Quiet ==
    /\ op' = [name |-> "env"]
    /\ res' = Plain("None")
    /\ log' = <<>>

\* the running receiver latches one status flag, and goes on or stops
ChipFlag(f) ==
    /\ dw.state.tag = "Receiving"
    /\ mode = "rx"
    /\ events < MaxEvents
    /\ f \notin sys_status
    /\ sys_status' = sys_status \cup {f}
    /\ mode' \in {"rx", "idle"}
    /\ events' = events + 1
    /\ Quiet
    /\ UNCHANGED <<dw, sys_cfg, ff_cfg, dx_time, rx_time, rx_finfo, rx_buffer, buffer, hdr>>

\* the running receiver stores a frame with a good FCS and stops: the receive
\* operation has finished
ChipFrame(len, m, stamp) ==
    /\ dw.state.tag = "Receiving"
    /\ mode = "rx"
    /\ events < MaxEvents
    /\ mode' = "idle"
    /\ sys_status' = sys_status \cup {"rxfcg"}
    /\ rx_finfo' = len
    /\ rx_buffer' = RxData(m)
    /\ rx_time' = stamp
    /\ events' = events + 1
    /\ Quiet
    /\ UNCHANGED <<dw, sys_cfg, ff_cfg, dx_time, buffer, hdr>>

\* the caller takes a buffer of n bytes for the next wait
CallerBuffer(n) ==
    /\ dw.state.tag = "Receiving"
    /\ buffer' = FreshBuffer(n)
    /\ Quiet
    /\ UNCHANGED <<dw, chip, events, hdr>>

-----------------------------------------------------------------------------
(* The driver with its chip *)

NoHeader == [phase |-> "none"]

\* a driver that has made no call yet, its handle in state st with sequence
\* counter n, and a chip that has received nothing
Fresh(n, st) ==
    /\ dw = [ll |-> "spi", seq |-> n, state |-> st]
    /\ sys_cfg = 0
    /\ ff_cfg = {}
    /\ dx_time = Zero
    /\ op = [name |-> "none"]
    /\ res = Plain("None")
    /\ log = <<>>

\* nothing received yet
NoFrame ==
    /\ sys_status = {}
    /\ rx_time = Zero
    /\ rx_finfo = 0
    /\ rx_buffer = [i \in 1..RxBufLen |-> 0]
    /\ mode = "idle"
    /\ events = 0

\* the state after configuration
Init ==
    /\ Fresh(MaxSeq, Ready)
    /\ NoFrame
    /\ buffer = <<>>
    /\ hdr = NoHeader

InitStart ==
    /\ \E n \in 0..MaxSeq : Fresh(n, Ready)
    /\ NoFrame
    /\ buffer = <<>>
    /\ hdr = NoHeader

\* One receive session after another, each started at once.
Next ==
    \/ \E fail \in 0..2 : receive(Now, FALSE, fail)
    \/ \E fail \in 0..5 : r_wait(fail)
    \/ \E fail \in 0..5 : r_wait_buf(fail)
    \/ \E fail \in 0..1 : finish_receiving(fail)
    \/ \E f \in ErrorFlags : ChipFlag(f)
    \/ \E len \in 0..MaxLen, m \in ModeBytes, stamp \in Stamps : ChipFrame(len, m, stamp)
    \/ \E n \in 0..MaxLen : CallerBuffer(n)

Spec == Init /\ [][Next]_vars

\* Starting and finishing sessions, at once or delayed, with every bus failure.
NextStart ==
    \/ \E t \in ReceiveTimes, ff \in BOOLEAN, fail \in 0..4 : receive(t, ff, fail)
    \/ \E fail \in 0..1 : finish_receiving(fail)

SpecStart == InitStart /\ [][NextStart]_vars


\* A session in progress whose chip shows any status word and holds a frame
\* of any length; the caller polls it with a buffer of MaxLen bytes.
InitStatus ==
    /\ Fresh(MaxSeq, Receiving(FALSE))
    /\ sys_status \in SUBSET DecoderFlags
    /\ rx_time = Zero
    /\ rx_finfo \in 0..MaxLen
    /\ rx_buffer \in {RxData(m) : m \in ModeBytes}
    /\ mode \in {"rx", "idle"}
    /\ events = MaxEvents
    /\ buffer = FreshBuffer(MaxLen)
    /\ hdr = NoHeader

NextStatus ==
    \/ \E fail \in 0..1 : r_wait(fail)
    \/ \E fail \in 0..1 : r_wait_buf(fail)

SpecStatus == InitStatus /\ [][NextStatus]_vars

-----------------------------------------------------------------------------
(* The SPI header: init_header and the example's decode_header *)

Bit(x, k) == (x \div 2^k) % 2

RECURSIVE OrBits(_, _, _)
OrBits(a, b, k) ==
    IF k < 0 THEN 0
    ELSE (IF Bit(a, k) = 1 \/ Bit(b, k) = 1 THEN 2^k ELSE 0) + OrBits(a, b, k - 1)

\* a | b on u8
Or8(a, b) == OrBits(a, b, 7)
\* a << k on u8
Shl8(a, k) == (a * 2^k) % 256

\* byte0 = write<<7 | id<<1 | (sub_id>>6 & 1); byte1 = (sub_id & 0x3f)<<2
init_header(id, sub_id, write) ==
    << Or8(Or8(Shl8(IF write THEN 1 ELSE 0, 7), Shl8(id, 1)), (sub_id \div 64) % 2),
       Shl8(sub_id % 64, 2) >>

\* variant: the sub-id bit carried in byte 0 is dropped
decode_header_low_sub_id(header) ==
    <<(header[1] \div 2) % 32, header[2] \div 4, Bit(header[1], 7) # 0>>

\* lines 36-39 of decode_header; 0x80 is bit 7, 0x3e is bits 1 to 5
decode_header(header) ==
    LET write == Bit(header[1], 7) # 0
        id == (header[1] \div 2) % 32
        sub_id == Or8(Shl8(header[1] % 2, 6), header[2] \div 4)
    IN  <<id, sub_id, write>>

EncodeHeader ==
    /\ hdr.phase = "input"
    /\ hdr' = [hdr EXCEPT !.phase = "encoded",
                          !.bytes = init_header(hdr.id, hdr.sub_id, hdr.write)]
    /\ UNCHANGED <<dw, chip, buffer, op, res, log, events>>

DecodeHeader ==
    /\ hdr.phase = "encoded"
    /\ hdr' = [hdr EXCEPT !.phase = "decoded", !.out = decode_header(hdr.bytes)]
    /\ UNCHANGED <<dw, chip, buffer, op, res, log, events>>

InitHeader ==
    /\ Fresh(0, Ready)
    /\ NoFrame
    /\ buffer = <<>>
    /\ hdr \in {[phase |-> "input", id |-> i, sub_id |-> s, write |-> w,
                 bytes |-> <<0, 0>>, out |-> <<0, 0, FALSE>>] :
                    i \in 0..MaxId, s \in 0..MaxSubId, w \in BOOLEAN}

NextHeader == EncodeHeader \/ DecodeHeader

SpecHeader == InitHeader /\ [][NextHeader]_vars

-----------------------------------------------------------------------------
(* Properties *)

Waits == {"r_wait", "r_wait_buf"}
WaitPlan == <<RdSysStatus, RdRxTime, WrSysStatus, RdRxFinfo, RdRxBuffer>>

\* the precedence of the status errors, highest first
Precedence ==
    << <<"rxfce", "Fcs">>, <<"rxphe", "Phy">>, <<"rxfsl", "ReedSolomon">>,
       <<"rxsto", "SfdTimeout">>, <<"arfe", "FrameFilteringRejection">>,
       <<"rxfto", "FrameWaitTimeout">>, <<"rxovrr", "Overrun">>,
       <<"rxpto", "PreambleDetectionTimeout">> >>

FirstError(s) ==
    LET set == {i \in 1..Len(Precedence) : Precedence[i][1] \in s}
    IN  IF set = {} THEN "WouldBlock"
        ELSE Precedence[CHOOSE i \in set : \A j \in set : i <= j][2]

\* v is a multiple of 2^9
Multiple512(v) == v[2] % 512 = 0

NoFastCmd(l) == \A i \in 1..Len(l) : ~IsFastCmd(l[i])

\* C1: a wait over a working bus that reads a status word with rxfcg unset
\* returns the error of the first set bit in the order FCS, PHY, Reed-Solomon,
\* SFD timeout, frame-filter rejection, frame-wait timeout, overrun, preamble
\* timeout, and WouldBlock exactly when none of the eight is set.
C1_StatusPrecedence ==
    [][ (op'.name \in Waits /\ op'.fail = 0 /\ "rxfcg" \notin sys_status)
        => res'.kind = FirstError(sys_status) ]_vars

C1_FcsOverSfdTimeout ==
    /\ op.name = "r_wait" /\ op.fail = 0
    /\ {"rxfce", "rxsto"} \subseteq sys_status /\ "rxfcg" \notin sys_status
    /\ res.kind = "Fcs"

\* C2: a delayed receive with an Instant that is not a multiple of 2^9 is
\* rejected before any bus transaction is issued, whatever frame_filtering is;
\* a multiple of 2^9 is accepted.
C2_RejectedBeforeAnyBus ==
    (op.name = "receive" /\ op.recv_time.kind = "Delayed")
    => IF Multiple512(op.recv_time.value)
       THEN res.kind \in {"Ok", "Spi"}
       ELSE res.kind \notin {"Ok", "Spi"} /\ log = <<>>

\* C3: finish_receiving on a session whose finished flag is set issues no bus
\* transaction and returns a Ready handle with the same register interface
\* and sequence counter.
C3_IdempotentFinish ==
    [][ (op'.name = "finish_receiving" /\ dw.state.tag = "Receiving" /\ dw.state.finished)
        => /\ log' = <<>>
           /\ res'.kind = "Ok"
           /\ dw' = [ll |-> dw.ll, seq |-> dw.seq, state |-> Ready] ]_vars

C3_FinishedThenReady ==
    /\ op.name = "finish_receiving" /\ res.kind = "Ok"
    /\ log = <<>> /\ dw.state = Ready /\ dw.seq = MaxSeq

\* C4: when force_idle fails in finish_receiving on an unfinished session,
\* the error comes back with the handle as it was (Receiving, same finished
\* flag, sequence counter and register interface), and a finish_receiving on
\* that handle can still return Ready.
C4_FailedAbortKeepsHandle ==
    /\ [][ (op'.name = "finish_receiving" /\ dw.state.tag = "Receiving"
            /\ ~dw.state.finished /\ op'.fail = 1)
           => /\ res'.kind = "Spi"
              /\ dw' = dw ]_vars
    /\ [](  (op.name = "finish_receiving" /\ res.kind = "Spi")
            => /\ dw.state.tag = "Receiving"
               /\ ENABLED (finish_receiving(0) /\ dw'.state = Ready) )

C4_AbortFailed ==
    /\ op.name = "finish_receiving" /\ op.fail = 1 /\ res.kind = "Spi"
    /\ dw = [ll |-> "spi", seq |-> MaxSeq, state |-> Receiving(FALSE)]

\* C5: a wait that finds a good frame longer than the caller's buffer fails
\* with BufferTooSmall carrying the frame length, leaves every byte of the
\* buffer as it was and does not set the finished flag.
C5_BufferTooSmall ==
    [][ (op'.name \in Waits /\ op'.fail = 0 /\ "rxfcg" \in sys_status
         /\ rx_finfo > Len(buffer))
        => /\ res'.kind = "BufferTooSmall"
           /\ res'.required_len = rx_finfo
           /\ buffer' = buffer
           /\ dw' = dw ]_vars

C5_TooSmallSeen ==
    /\ op.name = "r_wait" /\ res.kind = "BufferTooSmall"
    /\ res.required_len = MaxLen /\ Len(buffer) = 1
    /\ buffer = FreshBuffer(1) /\ ~dw.state.finished

\* C6 as stated: decoding the two header bytes of any id in 0..63, sub_id in
\* 0..127 and write flag gives back the tuple.
C6_RoundTrip63 ==
    (hdr.phase = "decoded" /\ hdr.id <= 63 /\ hdr.sub_id <= 127)
    => hdr.out = <<hdr.id, hdr.sub_id, hdr.write>>

\* C6: decoding the two header bytes of any id in 0..31, sub_id in 0..127 and
\* write flag gives back the tuple.
C6_RoundTrip31 ==
    (hdr.phase = "decoded" /\ hdr.id <= 31 /\ hdr.sub_id <= 127)
    => hdr.out = <<hdr.id, hdr.sub_id, hdr.write>>

C6_Decoded31 ==
    /\ hdr.phase = "decoded" /\ hdr.id = 31 /\ hdr.sub_id = 127 /\ hdr.write
    /\ hdr.out = <<31, 127, TRUE>>

\* C7: in every Receiving state finish_receiving over a working bus returns a
\* Ready handle, after exactly one force-idle command when the session is not
\* finished and none when it is; a wait issues no fast command.
C7_ReadyReachable ==
    /\ []( dw.state.tag = "Receiving"
           => ENABLED (finish_receiving(0) /\ dw'.state = Ready) )
    /\ [][ (op'.name = "finish_receiving" /\ op'.fail = 0)
           => /\ dw'.state = Ready
              /\ log' = IF dw.state.finished THEN <<>> ELSE <<CmdTxRxOff>> ]_vars
    /\ [][ op'.name \in Waits => NoFastCmd(log') ]_vars

C7_AbortedToReady ==
    /\ op.name = "finish_receiving" /\ op.fail = 0
    /\ log = <<CmdTxRxOff>> /\ dw.state = Ready
    /\ sys_status # {}

\* C8 as stated: a delayed receive with an Instant that is not a multiple of
\* 2^9, once the frame filtering is configured, returns an error value of the
\* invalid-timestamp-rounding kind and leaves a usable handle.
C8_MisalignedIsErrorValue ==
    (op.name = "receive" /\ op.recv_time.kind = "Delayed"
     /\ ~Multiple512(op.recv_time.value) /\ res.kind # "Spi")
    => /\ res.kind = "InvalidTimestampRounding"
       /\ dw.state.tag \in {"Ready", "Receiving"}

\* C8: a delayed receive with an Instant that is not a multiple of 2^9, once
\* the frame filtering is configured, panics: the call does not return, the
\* delay register is not written and no fast command is issued.
C8_MisalignedPanics ==
    [][ (op'.name = "receive" /\ op'.recv_time.kind = "Delayed"
         /\ ~Multiple512(op'.recv_time.value) /\ res'.kind # "Spi")
        => /\ res'.kind = "Panic"
           /\ dx_time' = dx_time
           /\ \A i \in 1..Len(log') : log'[i] # MdDxTime
           /\ NoFastCmd(log') ]_vars

C8_PanicSeen ==
    /\ op.name = "receive" /\ op.recv_time = Delayed(<<0, 513>>)
    /\ res.kind = "Panic" /\ dw.state = Panicked

\* C9: over a working bus and with a buffer that holds the frame, a wait that
\* reads rxfcg with ciaerr and/or rxprej and no error bit returns success; with
\* rxfcg unset these two bits alone give WouldBlock.
C9_SpuriousFlagsTolerated ==
    [][ (op'.name \in Waits /\ op'.fail = 0
         /\ sys_status \cap ErrorFlags = {} /\ sys_status \cap SpuriousFlags # {})
        => IF "rxfcg" \in sys_status
           THEN Len(buffer) >= rx_finfo => res'.kind = "Ok"
           ELSE res'.kind = "WouldBlock" ]_vars

\* C10: when the k-th bus transaction of a wait fails, the wait returns the
\* bus error, has issued the first k transactions and no more, has copied
\* nothing into the buffer and has not set the finished flag.
C10_TransportErrorAborts ==
    [][ op'.name \in Waits
        => /\ (op'.fail = 1 \/ (op'.fail \in 2..5 /\ "rxfcg" \in sys_status))
              => /\ res'.kind = "Spi"
                 /\ log' = SubSeq(WaitPlan, 1, op'.fail)
           /\ res'.kind = "Spi"
              => /\ log' = SubSeq(WaitPlan, 1, op'.fail)
                 /\ buffer' = buffer
                 /\ dw' = dw ]_vars

C10_WriteBackFailed ==
    /\ op.name = "r_wait_buf" /\ op.fail = 3 /\ res.kind = "Spi"
    /\ log = <<RdSysStatus, RdRxTime, WrSysStatus>>
    /\ "rxfcg" \in sys_status /\ ~dw.state.finished

\* the calls of the driver
Calls == {"receive", "r_wait", "r_wait_buf", "finish_receiving"}

\* C11 as stated: after every call of the driver the tag of the handle matches
\* the mode of the chip: Receiving with a chip in receive mode, Ready with an
\* idle chip, also after a wait that returned success, a status error or
\* BufferTooSmall.
C11_TagMatchesMode ==
    op.name \in Calls
    => /\ dw.state.tag = "Receiving" => mode = "rx"
       /\ dw.state.tag = "Ready" => mode = "idle"

\* C12 as stated: r_wait completes for every status word, time stamp, frame
\* length, frame content and buffer with success, WouldBlock or an error, never
\* with a panic, and over a working bus every frame with a good FCS that fits
\* the buffer gives success, whatever its bytes and its length.
C12_TotalTriState ==
    [][ op'.name = "r_wait"
        => /\ res'.kind # "Panic"
           /\ (op'.fail = 0 /\ "rxfcg" \in sys_status /\ Len(buffer) >= rx_finfo)
              => res'.kind = "Ok" ]_vars

\* C13: over a working bus a wait that reads a status word with rxfcg unset
\* returns what r_wait and r_wait_buf return for the same status word with any
\* other finished flag, caller buffer and frame length: the outcome depends on
\* the status word alone, whatever happened before.
C13_DecoderPure ==
    [][ (op'.name \in Waits /\ op'.fail = 0 /\ "rxfcg" \notin sys_status)
        => \A fin \in BOOLEAN, n \in 0..MaxLen, len \in {0, MaxLen} :
              /\ res' = r_wait_run(sys_status, Zero, len, RxData(0),
                                   FreshBuffer(n), Receiving(fin), 0).res
              /\ res' = r_wait_buf_run(sys_status, Zero, len, RxData(0),
                                       FreshBuffer(n), Receiving(fin), 0).res ]_vars

C13_DecodedAfterSuccess ==
    /\ op.name = "r_wait" /\ op.fail = 0
    /\ dw.state.tag = "Receiving" /\ dw.state.finished
    /\ buffer # FreshBuffer(MaxLen)
    /\ "rxfcg" \notin sys_status
    /\ res.kind = "FrameFilteringRejection"

\* C14 as stated: when a wait returns success, its status write-back has
\* cleared rxfcg and all eight error bits, frame-filter rejection included, so
\* that a wait that follows at once, with no new event of the chip, returns
\* WouldBlock.
C14_SuccessClearsDecoderBits ==
    [][ (op'.name \in Waits /\ res'.kind = "Ok")
        => /\ sys_status' \cap ({"rxfcg"} \cup ErrorFlags) = {}
           /\ r_wait_run(sys_status', rx_time', rx_finfo', rx_buffer', buffer',
                         dw'.state, 0).res.kind = "WouldBlock"
           /\ r_wait_buf_run(sys_status', rx_time', rx_finfo', rx_buffer', buffer',
                             dw'.state, 0).res.kind = "WouldBlock" ]_vars

\* C15 as stated: after a wait has returned BufferTooSmall with required_len,
\* a wait that follows with a buffer of required_len bytes, over a working bus
\* and with no new event of the chip, returns that frame: success with the
\* same length, bytes and time stamp, not WouldBlock.
C15_RetryReturnsFrame ==
    (op.name \in Waits /\ res.kind = "BufferTooSmall")
    => LET o == r_wait_buf_run(sys_status, rx_time, rx_finfo, rx_buffer,
                               FreshBuffer(res.required_len), dw.state, 0)
       IN  /\ o.res.kind = "Ok"
           /\ o.res.len = res.required_len
           /\ o.res.rx_time = rx_time
           /\ o.buffer = SubSeq(rx_buffer, 1, res.required_len)

IsPrefix(l, p) == Len(l) <= Len(p) /\ l = SubSeq(p, 1, Len(l))

\* C17: start_receiving first modifies SYS_CFG (ffen set and then the four
\* frame types allowed in FF_CFG when filtering is on; ffen cleared and FF_CFG
\* not touched when it is off), then, for Delayed only, writes DX_TIME, and
\* last issues one fast command, CMD_RX for Now and CMD_DRX for Delayed. The
\* transactions of every call are a front part of this sequence, a fast
\* command is never followed by another transaction, DX_TIME is not written
\* for Now, and a call that fails before its fast command issues none.
C17_StartOrdering ==
    [][ op'.name = "receive"
        => LET ff == op'.frame_filtering
               delayed == op'.recv_time.kind = "Delayed"
               order == (IF ff THEN <<MdSysCfg, MdFfCfg>> ELSE <<MdSysCfg>>)
                        \o (IF delayed THEN <<MdDxTime, CmdDrx>> ELSE <<CmdRx>>)
           IN  /\ IsPrefix(log', order)
               /\ \A i \in 1..Len(log') : IsFastCmd(log'[i]) => i = Len(log')
               /\ res'.kind = "Ok"
                  => /\ log' = order
                     /\ sys_cfg' = (IF ff THEN 1 ELSE 0)
                     /\ IF ff THEN FrameTypeBits \subseteq ff_cfg' ELSE ff_cfg' = ff_cfg
               /\ ~ff => \A i \in 1..Len(log') : log'[i] # MdFfCfg
               /\ ~delayed => /\ dx_time' = dx_time
                              /\ \A i \in 1..Len(log') : log'[i] # MdDxTime
               /\ (res'.kind = "Spi" /\ ~IsFastCmd(order[op'.fail]))
                  => NoFastCmd(log') ]_vars

C17_DelayedFilteredStart ==
    /\ op.name = "receive" /\ op.frame_filtering /\ op.recv_time.kind = "Delayed"
    /\ res.kind = "Ok"
    /\ log = <<MdSysCfg, MdFfCfg, MdDxTime, CmdDrx>>
    /\ sys_cfg = 1 /\ ff_cfg = FrameTypeBits

\* w << 8 for a 32-bit w, as a 40-bit value
Shl8Wide(w) == <<w[1] * 2^8 + w[2] \div 2^8, (w[2] % 2^8) * 2^8>>

\* C18: a delayed receive over a working bus with an Instant v that is a
\* multiple of 2^9 is accepted and writes to DX_TIME a value w that fits 32
\* bits, has its low bit 0 and gives back v when shifted left by 8.
C18_LosslessDelay ==
    [][ (op'.name = "receive" /\ op'.fail = 0 /\ op'.recv_time.kind = "Delayed"
         /\ Multiple512(op'.recv_time.value))
        => /\ res'.kind = "Ok"
           /\ dx_time'[1] \in 0..(2^16 - 1) /\ dx_time'[2] \in 0..(2^16 - 1)
           /\ dx_time'[2] % 2 = 0
           /\ Shl8Wide(dx_time') = op'.recv_time.value ]_vars

C18_LargestInstantWritten ==
    /\ op.name = "receive" /\ res.kind = "Ok"
    /\ op.recv_time = Delayed(<<2^24 - 1, 2^16 - 2^9>>)
    /\ dx_time = <<2^16 - 1, 2^16 - 2>>

\* C19: a wait that returns WouldBlock or a status error has issued the status
\* read and nothing else, and has changed no register of the chip, not the
\* caller's buffer and not the handle (finished flag, sequence counter); no
\* wait issues more than five transactions or issues one twice.
C19_BlockedWaitReadsOnce ==
    [][ op'.name \in Waits
        => /\ res'.kind \in {"WouldBlock"} \cup StatusErrorKinds
              => /\ log' = <<RdSysStatus>>
                 /\ chip' = chip
                 /\ buffer' = buffer
                 /\ dw' = dw
           /\ Len(log') <= 5
           /\ \A i, j \in 1..Len(log') : log'[i] = log'[j] => i = j ]_vars

C19_StatusErrorAfterSuccess ==
    /\ op.name \in Waits /\ res.kind \in StatusErrorKinds
    /\ log = <<RdSysStatus>>
    /\ dw.state.finished /\ buffer # FreshBuffer(Len(buffer))

\* C20 as stated: from every state of a session and for every bus failure,
\* r_wait and r_wait_buf issue the same transactions, leave the same status
\* word, buffer and session state, and return the same kind of outcome with
\* the same length and time stamp.
C20_WaitsEquivalent ==
    dw.state.tag = "Receiving"
    => \A fail \in 0..5 :
          LET a == r_wait_run(sys_status, rx_time, rx_finfo, rx_buffer, buffer,
                              dw.state, fail)
              b == r_wait_buf_run(sys_status, rx_time, rx_finfo, rx_buffer, buffer,
                                  dw.state, fail)
          IN  /\ a.log = b.log
              /\ a.status = b.status
              /\ a.buffer = b.buffer
              /\ a.state = b.state
              /\ a.res.kind = b.res.kind
              /\ a.res.len = b.res.len
              /\ a.res.rx_time = b.res.rx_time
              /\ a.res.required_len = b.res.required_len

\* C21: a wait that reads a status word with rxfcg set returns none of the
\* eight status errors and not WouldBlock, whichever error bits are set in the
\* same word, and returns what it returns for the same word without its error
\* bits: the error bits are inspected only when rxfcg is unset.
C21_FrameGoodDominates ==
    [][ (op'.name \in Waits /\ "rxfcg" \in sys_status)
        => /\ res'.kind \notin StatusErrorKinds \cup {"WouldBlock"}
           /\ res' = (IF op'.name = "r_wait"
                      THEN r_wait_run(sys_status \ ErrorFlags, rx_time, rx_finfo,
                                      rx_buffer, buffer, dw.state, op'.fail)
                      ELSE r_wait_buf_run(sys_status \ ErrorFlags, rx_time, rx_finfo,
                                          rx_buffer, buffer, dw.state, op'.fail)).res ]_vars

C21_FrameDeliveredDespiteErrors ==
    /\ op.name = "r_wait" /\ op.fail = 0
    /\ res.kind = "Ok" /\ res.len = rx_finfo
    /\ "arfe" \in sys_status /\ "rxfcg" \notin sys_status

=============================================================================
